---- MODULE Spec2Model ----
(***************************************************************************)
(* Roadmap projection engine of jiragitfluence (package generator):        *)
(* timeframe resolution, item normalisation, status derivation and         *)
(* aggregation, grouping and quarter placement.                            *)
(*                                                                         *)
(* Go strings that are only compared (statuses, labels, keys) are TLA+     *)
(* strings.  Strings that the code scans character by character (the       *)
(* timeframe expression) are sequences of one-character strings.           *)
(* A time.Time is a record [year, month, day, off]: its civil date in its  *)
(* own location and the offset of that location from UTC (all clock times  *)
(* the engine builds are local midnight).  A nil *time.Time is NilTime.    *)
(***************************************************************************)
EXTENDS Integers, Sequences, FiniteSets, TLC

VARIABLES
    pc,            \* position inside Generate / generateRoadmapFormat
    now,           \* time.Now(), fixed for one request
    opts,          \* generator.Options
    data,          \* *models.AggregatedData
    parsed,        \* the two values parseTimeframe returned
    startDate,     \* generateRoadmapFormat: startDate
    endDate,       \* generateRoadmapFormat: endDate
    quarters,      \* the quarter axis
    groupedItems,  \* generateTimelineView: groupedItems
    rows,          \* generateTimelineView: per group, the placed item rows
    milestones,    \* generateReleaseView: milestones (keyed by name)
    content,       \* Generate: the sections written to the strings.Builder
    ret,           \* Generate: the (string, error) it returned
    themes,        \* generateStrategicView: themes (keyed by name)
    epicMap,       \* generateEpicGanttView: epicMap
    ganttRows,     \* generateEpicGanttView: the table rows it wrote
    diagram        \* addDependenciesVisualization: the nodes and edges

vars == <<pc, now, opts, data, parsed, startDate, endDate, quarters,
          groupedItems, rows, milestones, content, ret, themes, epicMap,
          ganttRows, diagram>>

----------------------------------------------------------------------------
(* Bounds of the model.                                                    *)

MaxJira == 2        \* ticket issues per request
MaxGitHub == 1      \* host issues per request
MaxPRs == 1         \* pull requests per request
MaxVaried == 1      \* issues per source when status and dates are varied
MaxMonths == 13     \* largest count N in "<N>months"
MaxYears == 2       \* largest count N in "<N>year" / "<N>years"

----------------------------------------------------------------------------
(* Strings as character sequences: package strings and fmt scanning.       *)

DigitChars == <<"0", "1", "2", "3", "4", "5", "6", "7", "8", "9">>

IsDigit(c) == \E i \in 1..10 : DigitChars[i] = c

DigitVal(c) == (CHOOSE i \in 1..10 : DigitChars[i] = c) - 1

\* strconv/fmt %d of a non-negative integer, as characters
RECURSIVE ItoaChars(_)
ItoaChars(n) ==
    IF n < 10 THEN <<DigitChars[n + 1]>>
    ELSE ItoaChars(n \div 10) \o <<DigitChars[(n % 10) + 1]>>

\* the Go string made of the characters cs
RECURSIVE Join(_)
Join(cs) == IF cs = <<>> THEN "" ELSE Head(cs) \o Join(Tail(cs))

Itoa(n) == Join(ItoaChars(n))

\* strings.HasPrefix
HasPrefix(s, p) == Len(s) >= Len(p) /\ SubSeq(s, 1, Len(p)) = p

\* strings.HasSuffix
HasSuffix(s, p) ==
    Len(s) >= Len(p) /\ SubSeq(s, Len(s) - Len(p) + 1, Len(s)) = p

\* strings.Contains
Contains(s, p) ==
    \E i \in 1..(Len(s) - Len(p) + 1) : SubSeq(s, i, i + Len(p) - 1) = p

\* strings.TrimPrefix
TrimPrefix(s, p) ==
    IF HasPrefix(s, p) THEN SubSeq(s, Len(p) + 1, Len(s)) ELSE s

\* strings.TrimSpace
RECURSIVE TrimLeft(_)
TrimLeft(s) ==
    IF s # <<>> /\ Head(s) = " " THEN TrimLeft(Tail(s)) ELSE s

RECURSIVE TrimRight(_)
TrimRight(s) ==
    IF s # <<>> /\ s[Len(s)] = " " THEN TrimRight(SubSeq(s, 1, Len(s) - 1))
    ELSE s

TrimSpace(s) == TrimRight(TrimLeft(s))

\* strings.Split(s, sep) for a one-character separator
RECURSIVE Split(_, _)
Split(s, sep) ==
    IF \E i \in 1..Len(s) : s[i] = sep
    THEN LET i == CHOOSE k \in 1..Len(s) :
                      s[k] = sep /\ \A j \in 1..(k - 1) : s[j] # sep
         IN  <<SubSeq(s, 1, i - 1)>> \o Split(SubSeq(s, i + 1, Len(s)), sep)
    ELSE <<s>>

\* the longest run of digits at the front of s
RECURSIVE DigitRun(_)
DigitRun(s) ==
    IF s # <<>> /\ IsDigit(Head(s)) THEN <<Head(s)>> \o DigitRun(Tail(s))
    ELSE <<>>

RECURSIVE Atoi(_, _)
Atoi(ds, acc) ==
    IF ds = <<>> THEN acc ELSE Atoi(Tail(ds), acc * 10 + DigitVal(Head(ds)))

\* fmt: the %d verb (scanInt): skip blanks, optional sign, at least one
\* digit; the value is stored as soon as the verb is processed, so what
\* follows the digits in the input never changes it.  old is the value the
\* operand keeps when the scan fails.
ScanInt(s, old) ==
    LET t == TrimLeft(s)
        neg == t # <<>> /\ Head(t) = "-"
        u == IF t # <<>> /\ Head(t) \in {"+", "-"} THEN Tail(t) ELSE t
        ds == DigitRun(u)
    IN  IF ds = <<>> THEN old
        ELSE IF neg THEN 0 - Atoi(ds, 0) ELSE Atoi(ds, 0)

\* fmt.Sscanf(s, lit + "%d" + ..., &v): the literal text before the verb
\* must match the input or nothing is stored; the errors are ignored by
\* every caller.
Sscanf(s, lit, old) ==
    IF HasPrefix(s, lit) THEN ScanInt(SubSeq(s, Len(lit) + 1, Len(s)), old)
    ELSE old

----------------------------------------------------------------------------
(* package time, at the granularity of days.                               *)

NilTime == [year |-> 0, month |-> 0, day |-> 0, off |-> 0]

\* time.Time{}: January 1, year 1, 00:00:00 UTC
ZeroTime == [year |-> 1, month |-> 1, day |-> 1, off |-> 0]

IsLeap(y) == y % 4 = 0 /\ (y % 100 # 0 \/ y % 400 = 0)

DaysIn(y, m) ==
    IF m = 2 THEN (IF IsLeap(y) THEN 29 ELSE 28)
    ELSE IF m \in {4, 6, 9, 11} THEN 30 ELSE 31

\* time.Date carries a day beyond the end of the month into the next months
RECURSIVE NormDay(_, _, _, _)
NormDay(y, m, d, off) ==
    IF d > DaysIn(y, m)
    THEN NormDay(IF m = 12 THEN y + 1 ELSE y,
                 IF m = 12 THEN 1 ELSE m + 1,
                 d - DaysIn(y, m), off)
    ELSE [year |-> y, month |-> m, day |-> d, off |-> off]

\* time.Date(y, m, d, 0, 0, 0, 0, loc) for d >= 1: months outside 1..12
\* are normalised into the year first, then the day into the month
Date(y, m, d, off) ==
    NormDay(y + ((m - 1) \div 12), ((m - 1) % 12) + 1, d, off)

\* Time.AddDate
AddDate(t, years, months, days) ==
    Date(t.year + years, t.month + months, t.day + days, t.off)

\* Time.Before for two times of the same location
Before(t, u) ==
    \/ t.year < u.year
    \/ t.year = u.year /\ t.month < u.month
    \/ t.year = u.year /\ t.month = u.month /\ t.day < u.day

\* Time.IsZero: the instant January 1, year 1, 00:00:00 UTC; a local
\* midnight is that instant only in a location without offset
IsZero(t) == t.year = 1 /\ t.month = 1 /\ t.day = 1 /\ t.off = 0

\* (int(t.Month())-1)/3 + 1
QuarterOf(t) == ((t.month - 1) \div 3) + 1

\* fmt.Sprintf("Q%d %d", quarter, year)
QuarterLabel(q, year) == "Q" \o Itoa(q) \o " " \o Itoa(year)

----------------------------------------------------------------------------
(* Timeframe resolver: parseTimeframe, generateQuarters.                   *)

Chars_months == <<"m", "o", "n", "t", "h", "s">>
Chars_year == <<"y", "e", "a", "r">>
Chars_years == <<"y", "e", "a", "r", "s">>

Unresolved == [start |-> ZeroTime, end |-> ZeroTime, form |-> "none"]

FirstOfMonth(t) == Date(t.year, t.month, 1, t.off)

\* MonthsRange as it would be without truncating now to the first of the
\* month
MonthsRangeFromToday(months, n) ==
    [start |-> n, end |-> AddDate(n, 0, months, 0), form |-> "months"]

\* parseTimeframe, the "<N>months" branch; months is what Sscanf stored
MonthsRange(months, n) ==
    [start |-> FirstOfMonth(n),
     end   |-> AddDate(FirstOfMonth(n), 0, months, 0),
     form  |-> "months"]

\* parseTimeframe, the "<N>year(s)" branch
YearsRange(years, n) ==
    [start |-> FirstOfMonth(n),
     end   |-> AddDate(FirstOfMonth(n), years, 0, 0),
     form  |-> "years"]

\* parseTimeframe, the year text of the second part of a quarter range
YearStr(part) ==
    LET y1 == TrimSpace(TrimPrefix(part, <<"Q", "1">>))
        y2 == TrimSpace(TrimPrefix(y1, <<"Q", "2">>))
        y3 == TrimSpace(TrimPrefix(y2, <<"Q", "3">>))
    IN  TrimSpace(TrimPrefix(y3, <<"Q", "4">>))

\* QuarterRange as it would be without the step to the end of the last
\* month
QuarterRangeNoAdvance(startQ, endQ, year, n) ==
    [start |-> Date(year, (startQ - 1) * 3 + 1, 1, n.off),
     end   |-> Date(year, endQ * 3, 1, n.off),
     form  |-> "quarters"]

\* parseTimeframe, the accepted quarter range
QuarterRange(startQ, endQ, year, n) ==
    [start |-> Date(year, (startQ - 1) * 3 + 1, 1, n.off),
     end   |-> AddDate(Date(year, endQ * 3, 1, n.off), 0, 1, 0),
     form  |-> "quarters"]

\* parseTimeframe, the quarter-range branch
ParseQuarterRange(timeframe, n) ==
    LET parts == Split(timeframe, "-")
    IN  IF Len(parts) # 2 THEN Unresolved
        ELSE LET year == ScanInt(YearStr(parts[2]), 0)
                 startQ == Sscanf(TrimSpace(parts[1]), <<"Q">>, 0)
                 endQ == Sscanf(TrimSpace(parts[2]), <<"Q">>, 0)
             IN  IF startQ >= 1 /\ startQ <= 4 /\ endQ >= 1 /\ endQ <= 4
                    /\ year > 0
                 THEN QuarterRange(startQ, endQ, year, n)
                 ELSE Unresolved

\* parseTimeframe from the year branch on
ParseFromYears(timeframe, n) ==
    LET isYears == HasSuffix(timeframe, Chars_year)
                   \/ HasSuffix(timeframe, Chars_years)
        y1 == Sscanf(timeframe, <<>>, 0)
        years == IF y1 = 0 THEN Sscanf(timeframe, <<>>, y1) ELSE y1
    IN  IF isYears /\ years > 0 THEN YearsRange(years, n)
        ELSE IF Contains(timeframe, <<"-">>) /\ Contains(timeframe, <<"Q">>)
        THEN ParseQuarterRange(timeframe, n)
        ELSE Unresolved

\* parseTimeframe(timeframe) with time.Now() = n; form names the branch
\* that returned
parseTimeframe(timeframe, n) ==
    IF timeframe = <<>> THEN Unresolved
    ELSE LET months == Sscanf(timeframe, <<>>, 0)
         IN  IF HasSuffix(timeframe, Chars_months) /\ months > 0
             THEN MonthsRange(months, n)
             ELSE ParseFromYears(timeframe, n)

\* generateQuarters: the loop from current on, quarters collected so far
RECURSIVE QuartersLoop(_, _, _)
QuartersLoop(current, end, acc) ==
    IF Before(current, end)
    THEN LET quarter == QuarterLabel(QuarterOf(current), current.year)
             found == \E i \in 1..Len(acc) : acc[i] = quarter
         IN  QuartersLoop(AddDate(current, 0, 1, 0), end,
                          IF found THEN acc ELSE Append(acc, quarter))
    ELSE acc

generateQuarters(start, end) == QuartersLoop(start, end, <<>>)

\* generateQuartersFromNow(count)
generateQuartersFromNow(count, n) ==
    [i \in 1..count |->
        QuarterLabel(((QuarterOf(n) + (i - 1) - 1) % 4) + 1,
                     n.year + ((QuarterOf(n) + (i - 1) - 1) \div 4))]

----------------------------------------------------------------------------
(* Status derivation and aggregation.                                      *)

\* deriveRoadmapStatus as it would be without the "In Review" case
deriveRoadmapStatusNoReview(status) ==
    IF status \in {"To Do", "Open", "Backlog"} THEN "Planned"
    ELSE IF status \in {"In Progress"} THEN "In Progress"
    ELSE IF status \in {"Blocked", "Impediment"} THEN "Blocked"
    ELSE IF status \in {"Done", "Closed", "Resolved"} THEN "Completed"
    ELSE "Planned"

\* deriveRoadmapStatus
deriveRoadmapStatus(status) ==
    IF status \in {"To Do", "Open", "Backlog"} THEN "Planned"
    ELSE IF status \in {"In Progress", "In Review"} THEN "In Progress"
    ELSE IF status \in {"Blocked", "Impediment"} THEN "Blocked"
    ELSE IF status \in {"Done", "Closed", "Resolved"} THEN "Completed"
    ELSE "Planned"

\* deriveRoadmapStatusFromGitHub
deriveRoadmapStatusFromGitHub(state) ==
    IF state = "open" THEN "In Progress"
    ELSE IF state = "closed" THEN "Completed"
    ELSE "Planned"

\* aggregateStatus: statusPriority[s], 0 for a string that is not a key
statusPriority(s) ==
    IF s = "Blocked" THEN 5
    ELSE IF s = "At Risk" THEN 4
    ELSE IF s = "In Progress" THEN 3
    ELSE IF s = "Planned" THEN 2
    ELSE IF s = "Completed" THEN 1
    ELSE 0

\* aggregateStatus
aggregateStatus(currentStatus, newStatus) ==
    IF statusPriority(newStatus) > statusPriority(currentStatus)
    THEN newStatus
    ELSE currentStatus

----------------------------------------------------------------------------
(* Item normaliser: the two conversion loops of groupRoadmapItems.         *)

\* groupRoadmapItems: startDate of an issue
ItemStartDate(issue) ==
    IF issue.PlannedStartDate = NilTime THEN issue.CreatedDate
    ELSE issue.PlannedStartDate

\* ItemEndDate as it would be if the last update were used for every
\* issue without a planned end
ItemEndDateUpdated(issue, completed) ==
    IF issue.PlannedEndDate # NilTime THEN issue.PlannedEndDate
    ELSE issue.UpdatedDate

\* groupRoadmapItems: endDate of an issue; completed tells whether the
\* native status/state is a completed one
ItemEndDate(issue, completed) ==
    IF issue.PlannedEndDate # NilTime THEN issue.PlannedEndDate
    ELSE IF completed THEN issue.UpdatedDate
    ELSE AddDate(ItemStartDate(issue), 0, 0, 14)

JiraCompleted(issue) == issue.Status \in {"Done", "Closed", "Resolved"}

GitHubCompleted(issue) == issue.State = "closed"

\* groupRoadmapItems: item.Status of a ticket issue
JiraItemStatus(issue) ==
    IF issue.RoadmapStatus = "" THEN deriveRoadmapStatus(issue.Status)
    ELSE issue.RoadmapStatus

\* groupRoadmapItems: item.Status of a host issue
GitHubItemStatus(issue) ==
    IF issue.RoadmapStatus = "" THEN deriveRoadmapStatusFromGitHub(issue.State)
    ELSE issue.RoadmapStatus

\* RoadmapItem of the i-th ticket issue; idx stands for the identity of
\* the pointer &issue (one variable per iteration, go 1.24)
JiraItem(issue, i) ==
    [Type |-> "jira", idx |-> i, Issue |-> issue,
     Status |-> JiraItemStatus(issue),
     StartDate |-> ItemStartDate(issue),
     EndDate |-> ItemEndDate(issue, JiraCompleted(issue))]

\* RoadmapItem of the i-th host issue
GitHubItem(issue, i) ==
    [Type |-> "github-issue", idx |-> i, Issue |-> issue,
     Status |-> GitHubItemStatus(issue),
     StartDate |-> ItemStartDate(issue),
     EndDate |-> ItemEndDate(issue, GitHubCompleted(issue))]

HasPlannedEnd(item) == item.Issue.PlannedEndDate # NilTime

\* AllItems as it would be if issues without a planned end were skipped
AllItemsPlannedOnly(d) ==
    SelectSeq([i \in 1..Len(d.JiraIssues) |-> JiraItem(d.JiraIssues[i], i)]
              \o [i \in 1..Len(d.GitHubIssues) |->
                     GitHubItem(d.GitHubIssues[i], i)],
              HasPlannedEnd)

\* groupRoadmapItems: allItems after both loops; pull requests are not read
AllItems(d) ==
    [i \in 1..Len(d.JiraIssues) |-> JiraItem(d.JiraIssues[i], i)]
    \o [i \in 1..Len(d.GitHubIssues) |-> GitHubItem(d.GitHubIssues[i], i)]

----------------------------------------------------------------------------
(* Grouping engine: the switch of groupRoadmapItems.                       *)

\* case "epic" as it would be without the test for an empty epic link
EpicKeyNoFallback(item) ==
    IF item.Type = "jira" THEN item.Issue.EpicLink ELSE "No Epic"

\* case "epic"
EpicKey(item) ==
    IF item.Type = "jira" /\ item.Issue.EpicLink # ""
    THEN item.Issue.EpicLink ELSE "No Epic"

\* case "theme" as it would be without the issue-type fallback
ThemeKeyNoIssueType(item) ==
    IF item.Type = "jira"
    THEN IF item.Issue.Theme # "" THEN item.Issue.Theme ELSE "No Theme"
    ELSE IF item.Issue.Theme # "" THEN item.Issue.Theme
         ELSE IF Len(item.Issue.Labels) > 0 THEN item.Issue.Labels[1]
         ELSE "No Theme"

\* case "theme"
ThemeKey(item) ==
    IF item.Type = "jira"
    THEN IF item.Issue.Theme # "" THEN item.Issue.Theme
         ELSE IF item.Issue.IssueType # "" THEN item.Issue.IssueType
         ELSE "No Theme"
    ELSE IF item.Issue.Theme # "" THEN item.Issue.Theme
         ELSE IF Len(item.Issue.Labels) > 0 THEN item.Issue.Labels[1]
         ELSE "No Theme"

\* case "team"
TeamKey(item) ==
    IF item.Type = "jira" /\ item.Issue.Team # ""
    THEN item.Issue.Team ELSE "No Team"

\* case "quarter" as it would be if the explicit quarter were ignored
QuarterKeyDerivedOnly(item) ==
    IF item.StartDate # NilTime
    THEN QuarterLabel(QuarterOf(item.StartDate), item.StartDate.year)
    ELSE "No Quarter"

\* case "quarter"
QuarterKey(item) ==
    IF item.StartDate # NilTime
    THEN IF item.Issue.Quarter # "" THEN item.Issue.Quarter
         ELSE QuarterLabel(QuarterOf(item.StartDate), item.StartDate.year)
    ELSE "No Quarter"

GroupKey(item, grouping) ==
    IF grouping = "epic" THEN EpicKey(item)
    ELSE IF grouping = "theme" THEN ThemeKey(item)
    ELSE IF grouping = "team" THEN TeamKey(item)
    ELSE QuarterKey(item)

\* AppendToGroup as it would be if the group were assigned, not appended
AppendToGroupOverwrite(result, key, item) ==
    IF key \in DOMAIN result
    THEN [result EXCEPT ![key] = <<item>>]
    ELSE result @@ (key :> <<item>>)

\* result[key] = append(result[key], item)
AppendToGroup(result, key, item) ==
    IF key \in DOMAIN result
    THEN [result EXCEPT ![key] = Append(@, item)]
    ELSE result @@ (key :> <<item>>)

\* the range loop as it would be if it ran from the last item to item k
RECURSIVE GroupLoopReversed(_, _, _, _)
GroupLoopReversed(items, k, grouping, result) ==
    IF k > Len(items) THEN result
    ELSE AppendToGroup(GroupLoopReversed(items, k + 1, grouping, result),
                       GroupKey(items[k], grouping), items[k])

\* the range loop of one case of the switch, from item k on
RECURSIVE GroupLoop(_, _, _, _)
GroupLoop(items, k, grouping, result) ==
    IF k > Len(items) THEN result
    ELSE GroupLoop(items, k + 1, grouping,
                   AppendToGroup(result, GroupKey(items[k], grouping),
                                 items[k]))

EmptyMap == [k \in {} |-> <<>>]

\* groupRoadmapItems as it would be if the key were matched without case
groupRoadmapItemsFoldCase(d, grouping) ==
    IF grouping \in {"epic", "theme", "team", "quarter", "Epic"}
    THEN GroupLoop(AllItems(d), 1,
                   IF grouping = "Epic" THEN "epic" ELSE grouping, EmptyMap)
    ELSE ("All Items" :> AllItems(d))

\* groupRoadmapItems
groupRoadmapItems(d, grouping) ==
    IF grouping \in {"epic", "theme", "team", "quarter"}
    THEN GroupLoop(AllItems(d), 1, grouping, EmptyMap)
    ELSE ("All Items" :> AllItems(d))

----------------------------------------------------------------------------
(* Quarter placement: getItemQuarters.                                     *)

\* string(rune('0'+k))
RuneFromZero(k) ==
    IF k \in 0..9 THEN DigitChars[k + 1]
    ELSE <<":", ";", "<", "=", ">", "?", "@">>[k - 9]

\* "Q" + quarter + " " + the four decimal places of the year
ItemQuarterStr(t) ==
    "Q" \o RuneFromZero(QuarterOf(t)) \o " "
        \o RuneFromZero(t.year \div 1000)
        \o RuneFromZero((t.year \div 100) % 10)
        \o RuneFromZero((t.year \div 10) % 10)
        \o RuneFromZero(t.year % 10)

\* index (from 0) of the first element of qs equal to label, -1 if none
FirstIndex(qs, label) ==
    IF \E i \in 1..Len(qs) : qs[i] = label
    THEN (CHOOSE i \in 1..Len(qs) :
              qs[i] = label /\ \A j \in 1..(i - 1) : qs[j] # label) - 1
    ELSE -1

\* getItemQuarters as it would be if a missing end label also gave index 0
getItemQuartersEndZero(item, qs) ==
    IF item.StartDate = NilTime \/ item.EndDate = NilTime
    THEN [startQuarter |-> 0, endQuarter |-> 0]
    ELSE LET s == FirstIndex(qs, ItemQuarterStr(item.StartDate))
             e == FirstIndex(qs, ItemQuarterStr(item.EndDate))
         IN  [startQuarter |-> IF s = -1 THEN 0 ELSE s,
              endQuarter   |-> IF e = -1 THEN 0 ELSE e]

\* getItemQuarters
getItemQuarters(item, qs) ==
    IF item.StartDate = NilTime \/ item.EndDate = NilTime
    THEN [startQuarter |-> 0, endQuarter |-> 0]
    ELSE LET s == FirstIndex(qs, ItemQuarterStr(item.StartDate))
             e == FirstIndex(qs, ItemQuarterStr(item.EndDate))
         IN  [startQuarter |-> IF s = -1 THEN 0 ELSE s,
              endQuarter   |-> IF e = -1 THEN Len(qs) - 1 ELSE e]

----------------------------------------------------------------------------
(* Release view: extractMilestones.                                        *)

\* the RoadmapItem extractMilestones builds (no dates)
MilestoneItem(issue, type, i) ==
    [Type |-> type, idx |-> i, Issue |-> issue,
     Status |-> IF type = "jira" THEN JiraItemStatus(issue)
                ELSE GitHubItemStatus(issue)]

\* one iteration of either loop of extractMilestones
AddToMilestone(milestoneMap, issue, type, i) ==
    IF issue.Milestone # "" /\ issue.PlannedEndDate # NilTime
    THEN LET milestone ==
                 IF issue.Milestone \in DOMAIN milestoneMap
                 THEN milestoneMap[issue.Milestone]
                 ELSE [Name |-> issue.Milestone,
                       TargetDate |-> issue.PlannedEndDate,
                       Status |-> "Planned", Items |-> <<>>]
             item == MilestoneItem(issue, type, i)
             updated == [milestone EXCEPT
                            !.Items = Append(@, item),
                            !.Status = aggregateStatus(@, item.Status)]
         IN  IF issue.Milestone \in DOMAIN milestoneMap
             THEN [milestoneMap EXCEPT ![issue.Milestone] = updated]
             ELSE milestoneMap @@ (issue.Milestone :> updated)
    ELSE milestoneMap

RECURSIVE MilestoneLoop(_, _, _, _)
MilestoneLoop(issues, type, i, milestoneMap) ==
    IF i > Len(issues) THEN milestoneMap
    ELSE MilestoneLoop(issues, type, i + 1,
                       AddToMilestone(milestoneMap, issues[i], type, i))

\* extractMilestones, as the map it collects (the slice it returns lists
\* the values of this map in no particular order)
extractMilestones(d) ==
    MilestoneLoop(d.GitHubIssues, "github-issue", 1,
                  MilestoneLoop(d.JiraIssues, "jira", 1, EmptyMap))

----------------------------------------------------------------------------
(* Requests.                                                               *)

T(y, m, d) == [year |-> y, month |-> m, day |-> d, off |-> 0]

SeqsUpTo(S, n) == UNION {[1..k -> S] : k \in 0..n}

JiraBase ==
    [Key |-> "PROJ-7", IssueType |-> "Story", Summary |-> "Login page",
     Status |-> "To Do", Team |-> "", EpicLink |-> "",
     CreatedDate |-> T(2025, 1, 10), UpdatedDate |-> T(2025, 1, 20),
     PlannedStartDate |-> NilTime, PlannedEndDate |-> NilTime,
     Theme |-> "", Initiative |-> "", Dependencies |-> <<>>,
     RoadmapStatus |-> "", Milestone |-> "", Quarter |-> ""]

GitHubBase ==
    [Title |-> "Fix login", Number |-> 12, State |-> "open",
     Labels |-> <<>>, Repository |-> "org/app",
     CreatedDate |-> T(2025, 1, 10), UpdatedDate |-> T(2025, 1, 20),
     PlannedStartDate |-> NilTime, PlannedEndDate |-> NilTime,
     Theme |-> "", Initiative |-> "", Dependencies |-> <<>>,
     RoadmapStatus |-> "", Milestone |-> "", Quarter |-> ""]

PRBase ==
    [Title |-> "Add login", Number |-> 13, State |-> "open",
     Labels |-> <<>>, Repository |-> "org/app",
     CreatedDate |-> T(2025, 1, 11), UpdatedDate |-> T(2025, 1, 12),
     IsDraft |-> FALSE, MergeStatus |-> ""]

Chars_Q1_Q4_2025 ==
    <<"Q", "1", "-", "Q", "4", " ", "2", "0", "2", "5">>

OptsBase ==
    [Format |-> "roadmap", RoadmapTimeframe |-> Chars_Q1_Q4_2025,
     RoadmapGrouping |-> "theme", RoadmapView |-> "timeline",
     IncludeDependencies |-> FALSE, IncludeMetadata |-> FALSE]

\* the value of diagram while no dependency diagram was written
NoDiagram == [nodes |-> <<>>, edges |-> <<>>]

\* the value of ret while Generate has not returned
NoReturn == [out |-> <<>>, err |-> ""]

\* the state of a request when generateRoadmapFormat is entered
Entered(n, o, d) ==
    /\ pc = "start"
    /\ now = n
    /\ opts = o
    /\ data = d
    /\ parsed = Unresolved
    /\ startDate = ZeroTime
    /\ endDate = ZeroTime
    /\ quarters = <<>>
    /\ groupedItems = EmptyMap
    /\ rows = EmptyMap
    /\ milestones = EmptyMap
    /\ content = <<"header">>
    /\ ret = NoReturn
    /\ themes = EmptyMap
    /\ epicMap = EmptyMap
    /\ ganttRows = <<>>
    /\ diagram = NoDiagram

----------------------------------------------------------------------------
(* generateRoadmapFormat, statement by statement.                          *)

\* startDate, endDate := parseTimeframe(opts.RoadmapTimeframe)
ParseTimeframe ==
    /\ pc = "start"
    /\ content' = Append(content, "roadmap")
    /\ parsed' = parseTimeframe(opts.RoadmapTimeframe, now)
    /\ pc' = "parsed"
    /\ UNCHANGED <<now, opts, data, startDate, endDate, quarters,
                   groupedItems, rows, milestones, ret,
                   themes, epicMap, ganttRows, diagram>>

\* the default range of generateRoadmapFormat
DefaultStart(n) == FirstOfMonth(n)

DefaultEnd(n) == AddDate(FirstOfMonth(n), 1, 0, 0)

\* if startDate.IsZero() { ... }
DefaultRange ==
    /\ pc = "parsed"
    /\ IF IsZero(parsed.start)
       THEN /\ startDate' = DefaultStart(now)
            /\ endDate' = DefaultEnd(now)
       ELSE /\ startDate' = parsed.start
            /\ endDate' = parsed.end
    /\ pc' = "ranged"
    /\ UNCHANGED <<now, opts, data, parsed, quarters, groupedItems, rows,
                   milestones, content, ret,
                   themes, epicMap, ganttRows, diagram>>

\* quarters := generateQuarters(startDate, endDate)
GenerateQuarters ==
    /\ pc = "ranged"
    /\ quarters' = generateQuarters(startDate, endDate)
    /\ content' = Append(content, "period")
    /\ pc' = "view"
    /\ UNCHANGED <<now, opts, data, parsed, startDate, endDate,
                   groupedItems, rows, milestones, ret,
                   themes, epicMap, ganttRows, diagram>>

\* generateTimelineView: one row per item of a group, with its placement
PlaceRows(items, qs) ==
    [k \in 1..Len(items) |->
        [item |-> items[k], place |-> getItemQuarters(items[k], qs)]]

TimelineQuarters(qs, n) ==
    IF Len(qs) = 0 THEN generateQuartersFromNow(4, n) ELSE qs

\* fmt.Sprintf("GH_ISSUE_%d", i), i counted from 0
HostNodeID(i) == "GH_ISSUE_" \o Itoa(i - 1)

\* the two node loops of addDependenciesVisualization, from issue i on
RECURSIVE NodeLoop(_, _, _, _)
NodeLoop(issues, type, i, acc) ==
    IF i > Len(issues) THEN acc
    ELSE NodeLoop(issues, type, i + 1,
                  IF Len(issues[i].Dependencies) > 0
                  THEN Append(acc, IF type = "jira" THEN issues[i].Key
                                   ELSE HostNodeID(i))
                  ELSE acc)

\* the edge loop as it would be if it took the first dependency only
RECURSIVE EdgeLoopFirstOnly(_, _, _)
EdgeLoopFirstOnly(issues, i, acc) ==
    IF i > Len(issues) THEN acc
    ELSE EdgeLoopFirstOnly(issues, i + 1,
             IF Len(issues[i].Dependencies) > 0
             THEN Append(acc, <<issues[i].Key, issues[i].Dependencies[1]>>)
             ELSE acc)

\* the edge loop of addDependenciesVisualization (ticket issues only)
RECURSIVE EdgeLoop(_, _, _)
EdgeLoop(issues, i, acc) ==
    IF i > Len(issues) THEN acc
    ELSE EdgeLoop(issues, i + 1,
                  acc \o [k \in 1..Len(issues[i].Dependencies) |->
                             <<issues[i].Key, issues[i].Dependencies[k]>>])

\* addDependenciesVisualization: the node declarations and the edges
addDependenciesVisualization(d) ==
    [nodes |-> NodeLoop(d.GitHubIssues, "github-issue", 1,
                        NodeLoop(d.JiraIssues, "jira", 1, <<>>)),
     edges |-> EdgeLoop(d.JiraIssues, 1, <<>>)]

\* if opts.IncludeDependencies { g.addDependenciesVisualization(...) }
DependenciesBlock(o) ==
    IF o.IncludeDependencies THEN <<"dependencies">> ELSE <<>>

DependenciesDiagram(o, d) ==
    IF o.IncludeDependencies THEN addDependenciesVisualization(d)
    ELSE NoDiagram

\* the note the strategic and release views write instead
DependenciesNote(o) ==
    IF o.IncludeDependencies THEN <<"dependencies-note">> ELSE <<>>

\* the view switch of generateRoadmapFormat as it would be if its default
\* were the release view
viewRenderedDefaultRelease(view) ==
    IF view \in {"timeline", "strategic", "release", "epicgantt"}
    THEN view ELSE "release"

\* the view switch of generateRoadmapFormat: the view that is rendered
viewRendered(view) ==
    IF view \in {"timeline", "strategic", "release", "epicgantt"}
    THEN view ELSE "timeline"

\* case TimelineView and default of the view switch: generateTimelineView,
\* then addRoadmapLegend
TimelineView ==
    /\ pc = "view"
    /\ viewRendered(opts.RoadmapView) = "timeline"
    /\ quarters' = TimelineQuarters(quarters, now)
    /\ groupedItems' = groupRoadmapItems(data, opts.RoadmapGrouping)
    /\ rows' = [g \in DOMAIN groupedItems' |->
                   PlaceRows(groupedItems'[g], quarters')]
    /\ content' = content \o <<"timeline">> \o DependenciesBlock(opts)
                          \o <<"legend">>
    /\ diagram' = DependenciesDiagram(opts, data)
    /\ pc' = "done"
    /\ UNCHANGED <<now, opts, data, parsed, startDate, endDate, milestones,
                   ret, themes, epicMap, ganttRows>>

\* case ReleaseView: generateReleaseView, then addRoadmapLegend
ReleaseView ==
    /\ pc = "view"
    /\ viewRendered(opts.RoadmapView) = "release"
    /\ milestones' = extractMilestones(data)
    /\ content' = content \o DependenciesNote(opts)
                          \o <<"release", "legend">>
    /\ pc' = "done"
    /\ UNCHANGED <<now, opts, data, parsed, startDate, endDate, quarters,
                   groupedItems, rows, ret,
                   themes, epicMap, ganttRows, diagram>>

----------------------------------------------------------------------------
(* Strategic view: extractThemes.                                          *)

\* the Initiative one issue yields; StartQuarter and EndQuarter keep the
\* zero value of the struct literal
IssueInitiative(issue, type) ==
    [Name |-> issue.Initiative,
     Status |-> IF type = "jira" THEN JiraItemStatus(issue)
                ELSE GitHubItemStatus(issue),
     StartQuarter |-> 0, EndQuarter |-> 0]

\* one iteration of either loop of extractThemes:
\* themeMap[issue.Theme][issue.Initiative] = initiative
AddToTheme(themeMap, issue, type) ==
    IF /\ issue.Theme # "" /\ issue.Initiative # ""
       /\ issue.PlannedStartDate # NilTime /\ issue.PlannedEndDate # NilTime
    THEN LET initiatives ==
                 IF issue.Theme \in DOMAIN themeMap
                 THEN themeMap[issue.Theme] ELSE EmptyMap
             updated ==
                 IF issue.Initiative \in DOMAIN initiatives
                 THEN [initiatives EXCEPT ![issue.Initiative] =
                                              IssueInitiative(issue, type)]
                 ELSE initiatives
                          @@ (issue.Initiative :> IssueInitiative(issue, type))
         IN  IF issue.Theme \in DOMAIN themeMap
             THEN [themeMap EXCEPT ![issue.Theme] = updated]
             ELSE themeMap @@ (issue.Theme :> updated)
    ELSE themeMap

RECURSIVE ThemeLoop(_, _, _, _)
ThemeLoop(issues, type, i, themeMap) ==
    IF i > Len(issues) THEN themeMap
    ELSE ThemeLoop(issues, type, i + 1,
                   AddToTheme(themeMap, issues[i], type))

\* extractThemes, as the map it collects (the slices it returns list the
\* values of this map in no particular order)
extractThemes(d) ==
    ThemeLoop(d.GitHubIssues, "github-issue", 1,
              ThemeLoop(d.JiraIssues, "jira", 1, EmptyMap))

\* case StrategicView: generateStrategicView, then addRoadmapLegend
StrategicView ==
    /\ pc = "view"
    /\ viewRendered(opts.RoadmapView) = "strategic"
    /\ themes' = extractThemes(data)
    /\ content' = content \o DependenciesNote(opts)
                          \o <<"strategic", "legend">>
    /\ pc' = "done"
    /\ UNCHANGED <<now, opts, data, parsed, startDate, endDate, quarters,
                   groupedItems, rows, milestones, ret, epicMap, ganttRows,
                   diagram>>

----------------------------------------------------------------------------
(* Epic-Gantt view: generateEpicGanttView.                                 *)

\* strings.Contains on Go strings kept as TLA+ strings
StrContains(str, substr) ==
    \E i \in 1..(Len(str) - Len(substr) + 1) :
        SubSeq(str, i, i + Len(substr) - 1) = substr

\* first pass: the keys of the Epic tickets, each once, in first-seen
\* order
RECURSIVE EpicLoop(_, _, _)
EpicLoop(issues, i, acc) ==
    IF i > Len(issues) THEN acc
    ELSE EpicLoop(issues, i + 1,
             IF /\ issues[i].IssueType = "Epic"
                /\ \A k \in 1..Len(acc) : acc[k] # issues[i].Key
             THEN Append(acc, issues[i].Key)
             ELSE acc)

\* allEpics as it would be without the append of "No Epic"
allEpicsNoFallback(d) == EpicLoop(d.JiraIssues, 1, <<>>)

\* allEpics after the append of "No Epic"
allEpics(d) == Append(EpicLoop(d.JiraIssues, 1, <<>>), "No Epic")

\* epicKeyToName
epicKeyToName(d) ==
    [key \in {allEpics(d)[k] : k \in 1..Len(allEpics(d))} |->
        IF key = "No Epic" THEN "Issues without Epic"
        ELSE LET i == CHOOSE i \in 1..Len(d.JiraIssues) :
                          /\ d.JiraIssues[i].IssueType = "Epic"
                          /\ d.JiraIssues[i].Key = key
                          /\ \A j \in 1..(i - 1) :
                                ~(/\ d.JiraIssues[j].IssueType = "Epic"
                                  /\ d.JiraIssues[j].Key = key)
             IN  d.JiraIssues[i].Summary]

\* second pass over the ticket issues, from issue i on
RECURSIVE GanttJiraLoop(_, _, _)
GanttJiraLoop(issues, i, result) ==
    IF i > Len(issues) THEN result
    ELSE GanttJiraLoop(issues, i + 1,
             IF issues[i].IssueType = "Epic" THEN result
             ELSE AppendToGroup(result,
                                IF issues[i].EpicLink # ""
                                THEN issues[i].EpicLink ELSE "No Epic",
                                JiraItem(issues[i], i)))

\* the epic keys the range over epicKeyToName can stop at for a host
\* issue: map iteration visits the keys in no fixed order and the loop
\* breaks at the first key the title contains
HostEpicKeys(d, issue) ==
    LET found == {key \in DOMAIN epicKeyToName(d) :
                     key # "No Epic" /\ StrContains(issue.Title, key)}
    IN  IF found = {} THEN {"No Epic"} ELSE found

\* the loop over the host issues, from issue i on, when the range over
\* epicKeyToName stops at keys[i] for issue i
RECURSIVE GanttHostLoop(_, _, _, _)
GanttHostLoop(issues, keys, i, result) ==
    IF i > Len(issues) THEN result
    ELSE GanttHostLoop(issues, keys, i + 1,
             AppendToGroup(result, keys[i], GitHubItem(issues[i], i)))

\* every epicMap a run of the two grouping passes can build
EpicMaps(d) ==
    {GanttHostLoop(d.GitHubIssues, keys, 1,
                   GanttJiraLoop(d.JiraIssues, 1, EmptyMap)) :
        keys \in {ks \in [1..Len(d.GitHubIssues) -> DOMAIN epicKeyToName(d)] :
                     \A i \in 1..Len(d.GitHubIssues) :
                         ks[i] \in HostEpicKeys(d, d.GitHubIssues[i])}}

\* epicMap[epicKey] of a Go map: nil for a key never assigned
EpicItems(m, epicKey) == IF epicKey \in DOMAIN m THEN m[epicKey] ELSE <<>>

\* the rows of one epic: its header row, then one row per item
EpicRows(d, m, epicKey, qs) ==
    <<[kind |-> "header", epic |-> epicKey,
       name |-> epicKeyToName(d)[epicKey]]>>
    \o [k \in 1..Len(EpicItems(m, epicKey)) |->
           [kind |-> "item", epic |-> epicKey,
            item |-> EpicItems(m, epicKey)[k],
            place |-> getItemQuarters(EpicItems(m, epicKey)[k], qs)]]

\* the table loop as it would be without the skip of epics with no issues
RECURSIVE GanttTableAllEpics(_, _, _, _, _)
GanttTableAllEpics(d, m, e, qs, acc) ==
    IF e > Len(allEpics(d)) THEN acc
    ELSE GanttTableAllEpics(d, m, e + 1, qs,
                            acc \o EpicRows(d, m, allEpics(d)[e], qs))

\* the loop over allEpics that writes the table body, from epic e on
RECURSIVE GanttTable(_, _, _, _, _)
GanttTable(d, m, e, qs, acc) ==
    IF e > Len(allEpics(d)) THEN acc
    ELSE LET epicKey == allEpics(d)[e]
         IN  GanttTable(d, m, e + 1, qs,
                 IF Len(EpicItems(m, epicKey)) = 0 /\ epicKey # "No Epic"
                 THEN acc
                 ELSE acc \o EpicRows(d, m, epicKey, qs))

\* case EpicGanttView: generateEpicGanttView, then addRoadmapLegend
EpicGanttView ==
    /\ pc = "view"
    /\ viewRendered(opts.RoadmapView) = "epicgantt"
    /\ quarters' = TimelineQuarters(quarters, now)
    /\ epicMap' \in EpicMaps(data)
    /\ ganttRows' = GanttTable(data, epicMap', 1, quarters', <<>>)
    /\ content' = content \o <<"epicgantt">> \o DependenciesBlock(opts)
                          \o <<"legend">>
    /\ diagram' = DependenciesDiagram(opts, data)
    /\ pc' = "done"
    /\ UNCHANGED <<now, opts, data, parsed, startDate, endDate, groupedItems,
                   rows, milestones, ret, themes>>

----------------------------------------------------------------------------
(* Bounded requests.                                                       *)

NowDates == {T(2025, 3, 15), T(2024, 12, 31), T(2024, 1, 31)}

\* offsets of time.Local from UTC, in hours
Offsets == {0, 1}

Nows == {[n EXCEPT !.off = o] : n \in NowDates, o \in Offsets}

DataOne ==
    [JiraIssues |-> <<JiraBase>>, GitHubIssues |-> <<GitHubBase>>,
     GitHubPRs |-> <<PRBase>>]

Chars_month == <<"m", "o", "n", "t", "h">>

OddCounts == {<<>>, <<"-", "3">>, <<"x", "6">>}

MonthCounts == {ItoaChars(n) : n \in 0..MaxMonths} \cup OddCounts

YearCounts == {ItoaChars(n) : n \in 0..MaxYears} \cup OddCounts

JunkTexts == {<<>>, <<"x">>}

RelativeInputs ==
    {c \o j \o u : c \in MonthCounts, j \in JunkTexts,
                    u \in {Chars_months, Chars_month}}
        \cup {c \o j \o u : c \in YearCounts, j \in JunkTexts,
                             u \in {Chars_year, Chars_years}}

YearsTried == {0, 1, 2024, 2025}

YearTexts == {<<>>} \cup {<<" ">> \o ItoaChars(y) : y \in YearsTried}

QuarterInputs ==
    {<<"Q">> \o ItoaChars(a) \o <<"-", "Q">> \o ItoaChars(b) \o y :
        a \in 0..5, b \in 0..5, y \in YearTexts}

OtherInputs ==
    {<<>>,
     <<"f", "o", "o">>,
     <<"Q", "1">>,
     <<"2", "0", "2", "5">>,
     <<"n", "e", "x", "t", " ", "y", "e", "a", "r">>,
     <<"q", "1", "-", "q", "4", " ", "2", "0", "2", "5">>,
     <<"Q", "2", "-", "2", "0", "2", "5">>,
     <<"Q", "1", "-", "Q", "4", " ", "-", "5">>}

TimeframeInputs == RelativeInputs \cup QuarterInputs \cup OtherInputs

InitTimeframe ==
    \E tf \in TimeframeInputs, n \in Nows :
        Entered(n, [OptsBase EXCEPT !.RoadmapTimeframe = tf], DataOne)

NextTimeline ==
    \/ ParseTimeframe
    \/ DefaultRange
    \/ GenerateQuarters
    \/ TimelineView

SpecTimeframe == InitTimeframe /\ [][NextTimeline]_vars

----------------------------------------------------------------------------
(* Timeframe resolver: properties.                                         *)

\* the first day of the month k months after the month of n
MonthsLater(n, k) ==
    LET total == n.year * 12 + (n.month - 1) + k
    IN  [year |-> total \div 12, month |-> (total % 12) + 1, day |-> 1,
         off |-> n.off]

IsMonthsForm(tf, n) == tf = ItoaChars(n) \o Chars_months

IsYearsForm(tf, n) ==
    tf = ItoaChars(n) \o Chars_year \/ tf = ItoaChars(n) \o Chars_years

IsQuarterForm(tf, a, b, y) ==
    tf = <<"Q">> \o ItoaChars(a) \o <<"-", "Q">> \o ItoaChars(b)
            \o <<" ">> \o ItoaChars(y)

Chars_6months == <<"6">> \o Chars_months

\* C8: "<N>months" (N >= 1) resolves, in the months branch, to the range
\* from the first day of the current month to N months later, and
\* "<N>year" / "<N>years" resolves, in the years branch, to the range from
\* the first day of the current month to N years later; on 2025-03-15
\* "6months" gives 2025-03-01 .. 2025-09-01.
C8_RelativeTimeframe ==
    pc # "start" =>
        /\ \A n \in 1..MaxMonths :
              IsMonthsForm(opts.RoadmapTimeframe, n) =>
                  /\ parsed = [start |-> MonthsLater(now, 0),
                               end |-> MonthsLater(now, n),
                               form |-> "months"]
                  /\ pc # "parsed" =>
                        /\ startDate = MonthsLater(now, 0)
                        /\ endDate = MonthsLater(now, n)
        /\ \A n \in 1..MaxYears :
              IsYearsForm(opts.RoadmapTimeframe, n) =>
                  /\ parsed = [start |-> MonthsLater(now, 0),
                               end |-> MonthsLater(now, 12 * n),
                               form |-> "years"]
                  /\ pc # "parsed" =>
                        /\ startDate = MonthsLater(now, 0)
                        /\ endDate = MonthsLater(now, 12 * n)
        /\ (opts.RoadmapTimeframe = Chars_6months
                /\ now.year = 2025 /\ now.month = 3 /\ now.day = 15) =>
              /\ parsed.start = [T(2025, 3, 1) EXCEPT !.off = now.off]
              /\ parsed.end = [T(2025, 9, 1) EXCEPT !.off = now.off]

C8_Witness ==
    /\ pc = "done"
    /\ opts.RoadmapTimeframe = Chars_6months
    /\ now = T(2025, 3, 15)
    /\ startDate = T(2025, 3, 1)
    /\ endDate = T(2025, 9, 1)

\* the labels Qa..Qb of one year, in order (none when a > b)
QuarterLabels(a, b, y) == [i \in 1..(b - a + 1) |-> QuarterLabel(a + i - 1, y)]

\* C9: "Q<a>-Q<b> <year>" with 1 <= a,b <= 4 and year > 0 resolves to the
\* range from the first day of quarter a to the first day of the month
\* after quarter b, and generateQuarters over that range yields exactly
\* the labels Qa..Qb of that year in order; "Q1-Q4 2025" gives 2025-01-01,
\* 2026-01-01 and the four labels Q1 2025 .. Q4 2025.
C9_QuarterTimeframe ==
    pc # "start" =>
        /\ \A a \in 1..4, b \in 1..4, y \in YearsTried \ {0} :
              IsQuarterForm(opts.RoadmapTimeframe, a, b, y) =>
                  /\ parsed.form = "quarters"
                  /\ parsed.start =
                        [year |-> y, month |-> 3 * a - 2, day |-> 1,
                         off |-> now.off]
                  /\ parsed.end =
                        IF b = 4
                        THEN [year |-> y + 1, month |-> 1, day |-> 1,
                              off |-> now.off]
                        ELSE [year |-> y, month |-> 3 * b + 1, day |-> 1,
                              off |-> now.off]
                  /\ generateQuarters(parsed.start, parsed.end)
                        = QuarterLabels(a, b, y)
                  /\ (pc = "view" /\ startDate = parsed.start) =>
                        quarters = QuarterLabels(a, b, y)
        /\ opts.RoadmapTimeframe = Chars_Q1_Q4_2025 =>
              /\ parsed.start = [T(2025, 1, 1) EXCEPT !.off = now.off]
              /\ parsed.end = [T(2026, 1, 1) EXCEPT !.off = now.off]
              /\ pc = "view" =>
                    quarters = <<"Q1 2025", "Q2 2025", "Q3 2025", "Q4 2025">>

C9_Witness ==
    /\ pc = "view"
    /\ opts.RoadmapTimeframe = Chars_Q1_Q4_2025
    /\ startDate.year = 2025 /\ startDate.month = 1
    /\ endDate.year = 2026 /\ endDate.month = 1
    /\ Len(quarters) = 4

\* the forms the resolver is specified to recognise
Recognized(tf) ==
    \/ \E n \in 1..(MaxMonths + 1) : IsMonthsForm(tf, n)
    \/ \E n \in 1..(MaxYears + 1) : IsYearsForm(tf, n)
    \/ \E a \in 1..4, b \in 1..4, y \in YearsTried \ {0} :
          IsQuarterForm(tf, a, b, y)

\* C10: an expression that matches none of the recognised forms is
\* rendered with the default range, 12 months from the first day of the
\* current month.
C10_MalformedGetsDefault ==
    (pc \in {"ranged", "view", "done"} /\ ~Recognized(opts.RoadmapTimeframe))
        => /\ startDate = MonthsLater(now, 0)
           /\ endDate = MonthsLater(now, 12)

----------------------------------------------------------------------------
(* Requests that vary the issues.                                          *)

NowFixed == T(2025, 3, 15)

\* native ticket statuses: the ten of the derivation table and others
JiraStatusValues ==
    {"To Do", "Open", "Backlog", "In Progress", "In Review", "Blocked",
     "Impediment", "Done", "Closed", "Resolved", "On Hold", "done"}

GitHubStateValues == {"open", "closed", "OPEN"}

\* explicit planning statuses found in the input file ("" = not set)
JiraRoadmapStatusValues == {"", "At Risk", "On Hold"}

GitHubRoadmapStatusValues == {"", "Blocked", "Deferred"}

JiraStatusPool ==
    {[JiraBase EXCEPT !.Status = st, !.RoadmapStatus = rs] :
        st \in JiraStatusValues, rs \in JiraRoadmapStatusValues}

GitHubStatusPool ==
    {[GitHubBase EXCEPT !.State = st, !.RoadmapStatus = rs] :
        st \in GitHubStateValues, rs \in GitHubRoadmapStatusValues}

InitStatuses ==
    \E js \in SeqsUpTo(JiraStatusPool, MaxVaried),
       gs \in SeqsUpTo(GitHubStatusPool, MaxVaried) :
        Entered(NowFixed, OptsBase,
                [JiraIssues |-> js, GitHubIssues |-> gs,
                 GitHubPRs |-> <<PRBase>>])

SpecStatuses == InitStatuses /\ [][NextTimeline]_vars

CreatedValues == {T(2025, 1, 10), T(2024, 12, 25), T(2024, 2, 20)}

PlannedStart == T(2025, 8, 1)

PlannedEnd == T(2025, 2, 1)

JiraDatePool ==
    {[JiraBase EXCEPT !.CreatedDate = c, !.Status = st] :
        c \in CreatedValues, st \in {"In Progress", "Done", "Resolved"}}
    \cup
    {[JiraBase EXCEPT !.PlannedStartDate = PlannedStart, !.Status = st] :
        st \in {"In Progress", "Done"}}
    \cup
    {[JiraBase EXCEPT !.PlannedStartDate = ps, !.PlannedEndDate = PlannedEnd,
                      !.Status = "In Progress"] :
        ps \in {NilTime, PlannedStart}}
    \cup
    {[JiraBase EXCEPT !.PlannedEndDate = PlannedEnd, !.Status = "Done"]}

GitHubDatePool ==
    {[GitHubBase EXCEPT !.CreatedDate = c, !.State = st] :
        c \in {T(2025, 1, 10), T(2024, 12, 25)}, st \in {"open", "closed"}}
    \cup
    {[GitHubBase EXCEPT !.PlannedStartDate = PlannedStart, !.State = st] :
        st \in {"open", "closed"}}
    \cup
    {[GitHubBase EXCEPT !.PlannedStartDate = ps, !.PlannedEndDate = PlannedEnd,
                        !.State = "open"] :
        ps \in {NilTime, PlannedStart}}
    \cup
    {[GitHubBase EXCEPT !.PlannedEndDate = PlannedEnd, !.State = "closed"]}

InitDates ==
    \E js \in SeqsUpTo(JiraDatePool, MaxVaried),
       gs \in SeqsUpTo(GitHubDatePool, MaxVaried),
       prs \in SeqsUpTo({PRBase}, MaxPRs) :
        Entered(NowFixed, OptsBase,
                [JiraIssues |-> js, GitHubIssues |-> gs, GitHubPRs |-> prs])

SpecDates == InitDates /\ [][NextTimeline]_vars

JiraGroupPool ==
    {JiraBase,
     [JiraBase EXCEPT !.EpicLink = "PROJ-1"],
     [JiraBase EXCEPT !.Theme = "Platform"],
     [JiraBase EXCEPT !.IssueType = ""],
     [JiraBase EXCEPT !.Team = "Core"],
     [JiraBase EXCEPT !.Quarter = "Q3 2025"],
     [JiraBase EXCEPT !.CreatedDate = T(2024, 12, 25)],
     [JiraBase EXCEPT !.EpicLink = "PROJ-1", !.Theme = "Platform",
                      !.Team = "Core", !.Quarter = "Q3 2025"]}

GitHubGroupPool ==
    {GitHubBase,
     [GitHubBase EXCEPT !.Theme = "Platform"],
     [GitHubBase EXCEPT !.Labels = <<"bug", "ui">>],
     [GitHubBase EXCEPT !.Quarter = "Q3 2025"],
     [GitHubBase EXCEPT !.Theme = "Platform", !.Labels = <<"bug", "ui">>]}

GroupingValues == {"epic", "theme", "team", "quarter", "", "Epic"}

InitGrouping ==
    \E js \in SeqsUpTo(JiraGroupPool, MaxJira),
       gs \in SeqsUpTo(GitHubGroupPool, MaxGitHub),
       g \in GroupingValues :
        Entered(NowFixed, [OptsBase EXCEPT !.RoadmapGrouping = g],
                [JiraIssues |-> js, GitHubIssues |-> gs,
                 GitHubPRs |-> <<PRBase>>])

SpecGrouping == InitGrouping /\ [][NextTimeline]_vars

----------------------------------------------------------------------------
(* Item normaliser and grouping engine: properties.                        *)

\* the places <<group, position>> of the rendered groups
Places ==
    UNION {{<<g, k>> : k \in 1..Len(groupedItems[g])} :
              g \in DOMAIN groupedItems}

ItemAt(p) == groupedItems[p[1]][p[2]]

PlacesOf(type, i) ==
    {p \in Places : ItemAt(p).Type = type /\ ItemAt(p).idx = i}

\* C1: whatever the grouping key, every ticket issue and every host issue
\* of the input is in exactly one group exactly once, and the groups hold
\* nothing else.
C1_GroupsPartitionInput ==
    pc = "done" =>
        /\ \A i \in 1..Len(data.JiraIssues) :
              /\ Cardinality(PlacesOf("jira", i)) = 1
              /\ \A p \in PlacesOf("jira", i) :
                    ItemAt(p).Issue = data.JiraIssues[i]
        /\ \A i \in 1..Len(data.GitHubIssues) :
              /\ Cardinality(PlacesOf("github-issue", i)) = 1
              /\ \A p \in PlacesOf("github-issue", i) :
                    ItemAt(p).Issue = data.GitHubIssues[i]
        /\ \A p \in Places :
              \/ /\ ItemAt(p).Type = "jira"
                 /\ ItemAt(p).idx \in 1..Len(data.JiraIssues)
              \/ /\ ItemAt(p).Type = "github-issue"
                 /\ ItemAt(p).idx \in 1..Len(data.GitHubIssues)

C1_Witness ==
    /\ pc = "done"
    /\ opts.RoadmapGrouping = "epic"
    /\ Len(data.JiraIssues) = 2
    /\ Len(data.GitHubIssues) = 1
    /\ DOMAIN groupedItems = {"PROJ-1", "No Epic"}
    /\ Len(groupedItems["No Epic"]) = 2

CanonicalStatuses ==
    {"Planned", "In Progress", "At Risk", "Blocked", "Completed"}

\* C4: after normalisation the status of every planning item is one of the
\* five canonical statuses, whether explicit or derived.
C4_StatusIsCanonical ==
    \A p \in Places : ItemAt(p).Status \in CanonicalStatuses

\* the date 14 days after each start date that occurs in the requests
Plus14(t) ==
    CASE t = T(2025, 1, 10) -> T(2025, 1, 24)
      [] t = T(2024, 12, 25) -> T(2025, 1, 8)
      [] t = T(2024, 2, 20) -> T(2024, 3, 5)
      [] t = T(2025, 8, 1) -> T(2025, 8, 15)

NativeCompleted(it) ==
    IF it.Type = "jira" THEN it.Issue.Status \in {"Done", "Closed", "Resolved"}
    ELSE it.Issue.State = "closed"

\* C5: startDate is the planned start if present, else the creation date;
\* endDate is the planned end if present, else the last update when the
\* native status is a completed one, else startDate + 14 days; an open
\* host issue created 2025-01-10 without planned dates gets 2025-01-10 and
\* 2025-01-24.
C5_InferredDates ==
    pc = "done" =>
        \A p \in Places :
            LET it == ItemAt(p)
            IN  /\ it.StartDate =
                      IF it.Issue.PlannedStartDate # NilTime
                      THEN it.Issue.PlannedStartDate
                      ELSE it.Issue.CreatedDate
                /\ it.EndDate =
                      IF it.Issue.PlannedEndDate # NilTime
                      THEN it.Issue.PlannedEndDate
                      ELSE IF NativeCompleted(it) THEN it.Issue.UpdatedDate
                      ELSE Plus14(it.StartDate)
                /\ (/\ it.Type = "github-issue"
                    /\ it.Issue.State = "open"
                    /\ it.Issue.CreatedDate = T(2025, 1, 10)
                    /\ it.Issue.PlannedStartDate = NilTime
                    /\ it.Issue.PlannedEndDate = NilTime) =>
                      /\ it.StartDate = T(2025, 1, 10)
                      /\ it.EndDate = T(2025, 1, 24)

C5_Witness ==
    /\ pc = "done"
    /\ \E p \in Places :
          /\ ItemAt(p).Type = "github-issue"
          /\ ItemAt(p).Issue.State = "open"
          /\ ItemAt(p).Issue.PlannedEndDate = NilTime
          /\ ItemAt(p).Issue.UpdatedDate = T(2025, 1, 20)
          /\ ItemAt(p).StartDate = T(2025, 1, 10)
          /\ ItemAt(p).EndDate = T(2025, 1, 24)

\* C6: every ticket issue and every host issue yields exactly one planning
\* item, with both dates set; pull requests yield none.
C6_NoIssueDropped ==
    pc = "done" =>
        /\ Cardinality(Places)
              = Len(data.JiraIssues) + Len(data.GitHubIssues)
        /\ \A i \in 1..Len(data.JiraIssues) :
              Cardinality(PlacesOf("jira", i)) = 1
        /\ \A i \in 1..Len(data.GitHubIssues) :
              Cardinality(PlacesOf("github-issue", i)) = 1
        /\ \A p \in Places :
              /\ ItemAt(p).StartDate # NilTime
              /\ ItemAt(p).EndDate # NilTime

C6_Witness ==
    /\ pc = "done"
    /\ Len(data.JiraIssues) = 1
    /\ Len(data.GitHubIssues) = 1
    /\ Len(data.GitHubPRs) = 1
    /\ data.JiraIssues[1].PlannedStartDate = NilTime
    /\ data.JiraIssues[1].PlannedEndDate = NilTime
    /\ Cardinality(Places) = 2

\* the derivation tables of the two sources
TicketTable(status) ==
    CASE status \in {"To Do", "Open", "Backlog"} -> "Planned"
      [] status \in {"In Progress", "In Review"} -> "In Progress"
      [] status \in {"Blocked", "Impediment"} -> "Blocked"
      [] status \in {"Done", "Closed", "Resolved"} -> "Completed"
      [] OTHER -> "Planned"

HostTable(state) ==
    CASE state = "open" -> "In Progress"
      [] state = "closed" -> "Completed"
      [] OTHER -> "Planned"

\* C7: without an explicit planning status the item status is the entry of
\* the derivation table of its source; an explicit planning status is used
\* unchanged.
C7_DerivedStatus ==
    pc = "done" =>
        \A p \in Places :
            LET it == ItemAt(p)
            IN  IF it.Issue.RoadmapStatus # ""
                THEN it.Status = it.Issue.RoadmapStatus
                ELSE IF it.Type = "jira"
                THEN it.Status = TicketTable(it.Issue.Status)
                ELSE it.Status = HostTable(it.Issue.State)

C7_Witness ==
    /\ pc = "done"
    /\ \E p \in Places, q \in Places :
          /\ ItemAt(p).Type = "jira"
          /\ ItemAt(p).Issue.RoadmapStatus = ""
          /\ ItemAt(p).Issue.Status = "In Review"
          /\ ItemAt(p).Status = "In Progress"
          /\ ItemAt(q).Type = "github-issue"
          /\ ItemAt(q).Issue.RoadmapStatus = "Blocked"
          /\ ItemAt(q).Issue.State = "closed"
          /\ ItemAt(q).Status = "Blocked"

----------------------------------------------------------------------------
(* The whole of generateRoadmapFormat for the timeline and release views.  *)

Chars_Q3_Q1_2025 ==
    <<"Q", "3", "-", "Q", "1", " ", "2", "0", "2", "5">>

GitHubPlacePool ==
    {GitHubBase, [GitHubBase EXCEPT !.PlannedStartDate = PlannedStart]}

Init ==
    \E tf \in {Chars_Q1_Q4_2025, Chars_Q3_Q1_2025, Chars_6months, <<>>},
       view \in {"timeline", "strategic", "release", "epicgantt"},
       js \in SeqsUpTo(JiraDatePool, MaxVaried),
       gs \in SeqsUpTo(GitHubPlacePool, MaxVaried) :
        Entered(NowFixed,
                [OptsBase EXCEPT !.RoadmapTimeframe = tf,
                                 !.RoadmapView = view],
                [JiraIssues |-> js, GitHubIssues |-> gs,
                 GitHubPRs |-> <<PRBase>>])

Next ==
    \/ ParseTimeframe
    \/ DefaultRange
    \/ GenerateQuarters
    \/ TimelineView
    \/ StrategicView
    \/ ReleaseView
    \/ EpicGanttView

Spec == Init /\ [][Next]_vars

\* C2: for every placed item of a timeline whose axis has at least one
\* quarter, 0 <= startIndex <= endIndex <= len(axis)-1.
C2_PlacementInBounds ==
    (pc = "done" /\ opts.RoadmapView = "timeline" /\ Len(quarters) >= 1) =>
        \A g \in DOMAIN rows : \A k \in 1..Len(rows[g]) :
            /\ 0 <= rows[g][k].place.startQuarter
            /\ rows[g][k].place.startQuarter <= rows[g][k].place.endQuarter
            /\ rows[g][k].place.endQuarter <= Len(quarters) - 1

JiraReleasePool ==
    {[JiraBase EXCEPT !.Milestone = "v1.0",
                      !.PlannedEndDate = T(2025, 6, 30),
                      !.Status = st, !.RoadmapStatus = rs] :
        st \in {"To Do", "Done"},
        rs \in {"", "At Risk", "On Hold", "Deferred"}}
    \cup {[JiraBase EXCEPT !.Milestone = "v1.0"]}

GitHubReleasePool ==
    {[GitHubBase EXCEPT !.Milestone = "v1.0",
                        !.PlannedEndDate = T(2025, 6, 30),
                        !.State = st, !.RoadmapStatus = rs] :
        st \in {"open", "closed"}, rs \in {"", "Blocked", "Deferred"}}

InitRelease ==
    \E js \in SeqsUpTo(JiraReleasePool, MaxJira),
       gs \in SeqsUpTo(GitHubReleasePool, MaxGitHub) :
        Entered(NowFixed, [OptsBase EXCEPT !.RoadmapView = "release"],
                [JiraIssues |-> js, GitHubIssues |-> gs,
                 GitHubPRs |-> <<PRBase>>])

NextRelease ==
    \/ ParseTimeframe
    \/ DefaultRange
    \/ GenerateQuarters
    \/ ReleaseView

SpecRelease == InitRelease /\ [][NextRelease]_vars

\* the statuses of the items of milestone m, in the order they were added
ItemStatuses(m) ==
    [k \in 1..Len(milestones[m].Items) |-> milestones[m].Items[k].Status]

\* the fold of extractMilestones over a sequence of statuses
RECURSIVE FoldStatus(_, _)
FoldStatus(current, statuses) ==
    IF statuses = <<>> THEN current
    ELSE FoldStatus(aggregateStatus(current, Head(statuses)), Tail(statuses))

Reorderings(seq) ==
    {[k \in 1..Len(seq) |-> seq[f[k]]] : f \in Permutations(1..Len(seq))}

\* C3: over the statuses the items carry, aggregateStatus is commutative
\* and associative, and folding it over any permutation of the item
\* statuses yields the same aggregate status.
C3_AggregationOrderFree ==
    \A m \in DOMAIN milestones :
        LET sts == ItemStatuses(m)
            S == {sts[k] : k \in 1..Len(sts)}
        IN  /\ \A a \in S, b \in S :
                  aggregateStatus(a, b) = aggregateStatus(b, a)
            /\ \A a \in S, b \in S, c \in S :
                  aggregateStatus(aggregateStatus(a, b), c)
                      = aggregateStatus(a, aggregateStatus(b, c))
            /\ \A r \in Reorderings(sts) :
                  FoldStatus("Planned", r) = milestones[m].Status

----------------------------------------------------------------------------
(* Quarter axis and quarter placement: properties.                         *)

\* the years whose quarters the axis of the request can hold
AxisYears ==
    {startDate.year + k : k \in 0..(MaxYears + 1)}
        \cup {now.year + k : k \in 0..1}

\* the chronological rank of a quarter label, -1 for a text that is none
LabelOrd(label) ==
    LET P == {p \in AxisYears \X (1..4) : QuarterLabel(p[2], p[1]) = label}
    IN  IF P = {} THEN -1
        ELSE LET p == CHOOSE p \in P : TRUE IN p[1] * 4 + (p[2] - 1)

\* the chronological rank of the quarter that holds a date
DateOrd(t) == t.year * 4 + (QuarterOf(t) - 1)

\* C11: the quarter axis handed to the view renderers has at least one
\* label, no label twice, and its labels in strictly chronological order.
C11_AxisWellFormed ==
    pc = "view" =>
        /\ Len(quarters) >= 1
        /\ \A i \in 1..Len(quarters), j \in 1..Len(quarters) :
              i # j => quarters[i] # quarters[j]
        /\ \A i \in 1..Len(quarters) : LabelOrd(quarters[i]) >= 0
        /\ \A i \in 1..(Len(quarters) - 1) :
              LabelOrd(quarters[i]) < LabelOrd(quarters[i + 1])

\* all rows of the rendered timeline
AllRows == UNION {{rows[g][k] : k \in 1..Len(rows[g])} : g \in DOMAIN rows}

\* the quarter label "Q<n> <year>" of a date
LabelOf(t) == QuarterLabel(QuarterOf(t), t.year)

\* index i (from 0) is where label first occurs in the axis
IsFirstAt(label, i) ==
    /\ i + 1 \in 1..Len(quarters)
    /\ quarters[i + 1] = label
    /\ \A j \in 1..i : quarters[j] # label

LabelAbsent(label) == \A j \in 1..Len(quarters) : quarters[j] # label

BeforeAxis(item) ==
    /\ DateOrd(item.StartDate) < LabelOrd(quarters[1])
    /\ DateOrd(item.EndDate) < LabelOrd(quarters[1])

AfterAxis(item) ==
    /\ DateOrd(item.StartDate) > LabelOrd(quarters[Len(quarters)])
    /\ DateOrd(item.EndDate) > LabelOrd(quarters[Len(quarters)])

\* C13: an item whose date range lies entirely before the axis is placed in
\* the first cell only, and one entirely after the axis in the last cell
\* only.
C13_OffAxisInBoundaryCell ==
    (pc = "done" /\ opts.RoadmapView = "timeline") =>
        \A r \in AllRows :
            /\ BeforeAxis(r.item) =>
                  r.place = [startQuarter |-> 0, endQuarter |-> 0]
            /\ AfterAxis(r.item) =>
                  r.place = [startQuarter |-> Len(quarters) - 1,
                             endQuarter |-> Len(quarters) - 1]

----------------------------------------------------------------------------
(* Grouping engine: the label of each group.                               *)

\* C14: grouping by "epic" puts a ticket item with a non-empty epic link in
\* the group of that link, and every host item and every ticket item with
\* an empty epic link in "No Epic".
C14_EpicGrouping ==
    (pc = "done" /\ opts.RoadmapGrouping = "epic") =>
        \A p \in Places :
            LET it == ItemAt(p)
            IN  /\ (it.Type = "jira" /\ it.Issue.EpicLink # "") =>
                      p[1] = it.Issue.EpicLink
                /\ (it.Type = "jira" /\ it.Issue.EpicLink = "") =>
                      p[1] = "No Epic"
                /\ it.Type = "github-issue" => p[1] = "No Epic"

C14_Witness ==
    /\ pc = "done"
    /\ opts.RoadmapGrouping = "epic"
    /\ \E p \in Places :
          /\ ItemAt(p).Type = "jira"
          /\ ItemAt(p).Issue.EpicLink = "PROJ-1"
          /\ p[1] = "PROJ-1"
    /\ \E p \in Places :
          /\ ItemAt(p).Type = "jira"
          /\ ItemAt(p).Issue.EpicLink = ""
          /\ p[1] = "No Epic"
    /\ \E p \in Places : ItemAt(p).Type = "github-issue" /\ p[1] = "No Epic"

\* C15: grouping by "theme" labels an item with its explicit theme when it
\* has one; otherwise a ticket item with its issue-type name and a host
\* item with its first label; an item with none of these is in "No Theme".
C15_ThemeGrouping ==
    (pc = "done" /\ opts.RoadmapGrouping = "theme") =>
        \A p \in Places :
            LET it == ItemAt(p)
            IN  IF it.Issue.Theme # "" THEN p[1] = it.Issue.Theme
                ELSE IF it.Type = "jira" /\ it.Issue.IssueType # ""
                     THEN p[1] = it.Issue.IssueType
                ELSE IF it.Type = "github-issue" /\ it.Issue.Labels # <<>>
                     THEN p[1] = Head(it.Issue.Labels)
                ELSE p[1] = "No Theme"

C15_Witness ==
    /\ pc = "done"
    /\ opts.RoadmapGrouping = "theme"
    /\ \E p \in Places :
          /\ ItemAt(p).Type = "jira"
          /\ ItemAt(p).Issue.Theme = ""
          /\ p[1] = "Story"
    /\ \E p \in Places :
          /\ ItemAt(p).Type = "jira"
          /\ ItemAt(p).Issue.IssueType = ""
          /\ p[1] = "No Theme"
    /\ \E p \in Places :
          /\ ItemAt(p).Type = "github-issue"
          /\ ItemAt(p).Issue.Theme = ""
          /\ p[1] = "bug"

\* the ranks of the quarters of the axis
AxisOrds == {LabelOrd(quarters[i]) : i \in 1..Len(quarters)}

\* C16: grouping by "quarter" labels an item with its explicit quarter when
\* it has one, otherwise with the label "Q<n> <year>" of the quarter of its
\* startDate, written as the axis writes that quarter; no item is in
\* "No Quarter".
C16_QuarterGrouping ==
    (pc = "done" /\ opts.RoadmapGrouping = "quarter") =>
        /\ "No Quarter" \notin DOMAIN groupedItems
        /\ \A p \in Places :
              LET it == ItemAt(p)
              IN  IF it.Issue.Quarter # "" THEN p[1] = it.Issue.Quarter
                  ELSE /\ p[1] = LabelOf(it.StartDate)
                       /\ DateOrd(it.StartDate) \in AxisOrds =>
                             \E i \in 1..Len(quarters) :
                                /\ quarters[i] = p[1]
                                /\ LabelOrd(quarters[i])
                                      = DateOrd(it.StartDate)

C16_Witness ==
    /\ pc = "done"
    /\ opts.RoadmapGrouping = "quarter"
    /\ \E p \in Places :
          /\ ItemAt(p).Issue.Quarter = "Q3 2025"
          /\ ItemAt(p).StartDate = T(2025, 1, 10)
          /\ p[1] = "Q3 2025"
    /\ \E p \in Places :
          /\ ItemAt(p).Issue.Quarter = ""
          /\ ItemAt(p).StartDate = T(2024, 12, 25)
          /\ p[1] = "Q4 2024"
    /\ \E p \in Places :
          /\ ItemAt(p).Issue.Quarter = ""
          /\ p[1] = quarters[1]

\* C17: a grouping key other than the literals epic, theme, team and
\* quarter gives the single group "All Items" holding every item.
C17_UnknownGroupingAllItems ==
    (pc = "done"
       /\ opts.RoadmapGrouping \notin {"epic", "theme", "team", "quarter"}) =>
        /\ DOMAIN groupedItems = {"All Items"}
        /\ Len(groupedItems["All Items"])
              = Len(data.JiraIssues) + Len(data.GitHubIssues)
        /\ \A i \in 1..Len(data.JiraIssues) :
              \E p \in Places :
                 /\ ItemAt(p).Type = "jira"
                 /\ ItemAt(p).Issue = data.JiraIssues[i]
        /\ \A i \in 1..Len(data.GitHubIssues) :
              \E p \in Places :
                 /\ ItemAt(p).Type = "github-issue"
                 /\ ItemAt(p).Issue = data.GitHubIssues[i]

C17_Witness ==
    /\ pc = "done"
    /\ opts.RoadmapGrouping = "Epic"
    /\ Len(data.JiraIssues) = 2
    /\ data.JiraIssues[1].EpicLink = "PROJ-1"
    /\ data.JiraIssues[2].EpicLink = ""
    /\ Len(data.GitHubIssues) = 1
    /\ Len(groupedItems["All Items"]) = 3

\* the position of an item in the input: ticket issues, then host issues
InputRank(it) ==
    IF it.Type = "jira" THEN it.idx ELSE Len(data.JiraIssues) + it.idx

\* C18: within every group the items are in input order: ticket items in
\* the order of the ticket collection, then host items in the order of the
\* host collection.
C18_StableOrder ==
    pc = "done" =>
        \A g \in DOMAIN groupedItems :
            \A k \in 1..Len(groupedItems[g]), l \in 1..Len(groupedItems[g]) :
                k < l => InputRank(groupedItems[g][k])
                            < InputRank(groupedItems[g][l])

C18_Witness ==
    /\ pc = "done"
    /\ opts.RoadmapGrouping = "team"
    /\ Len(data.JiraIssues) = 2
    /\ data.JiraIssues[1] # data.JiraIssues[2]
    /\ Len(data.GitHubIssues) = 1
    /\ Len(groupedItems["No Team"]) = 3
    /\ groupedItems["No Team"][1].Issue = data.JiraIssues[1]
    /\ groupedItems["No Team"][2].Issue = data.JiraIssues[2]
    /\ groupedItems["No Team"][3].Issue = data.GitHubIssues[1]

----------------------------------------------------------------------------
(* Generator.Generate: the format switch around generateRoadmapFormat.     *)

\* the Format constants
Formats == {"table", "kanban", "custom", "gantt", "roadmap"}

\* the state of a request when Generate is called
Called(n, o, d) ==
    /\ pc = "generate"
    /\ now = n
    /\ opts = o
    /\ data = d
    /\ parsed = Unresolved
    /\ startDate = ZeroTime
    /\ endDate = ZeroTime
    /\ quarters = <<>>
    /\ groupedItems = EmptyMap
    /\ rows = EmptyMap
    /\ milestones = EmptyMap
    /\ content = <<>>
    /\ ret = NoReturn
    /\ themes = EmptyMap
    /\ epicMap = EmptyMap
    /\ ganttRows = <<>>
    /\ diagram = NoDiagram

\* the default case as it would be if it returned what was written so far
unsupportedFormatPartial(written, format) ==
    [out |-> written, err |-> "unsupported format: " \o format]

\* default: return "", fmt.Errorf("unsupported format: %s", opts.Format)
unsupportedFormat(written, format) ==
    [out |-> <<>>, err |-> "unsupported format: " \o format]

\* Generate up to the format switch: addHeader, then the case taken; the
\* table, kanban, custom and gantt generators write their one section here
Generate ==
    /\ pc = "generate"
    /\ IF opts.Format = "roadmap"
       THEN /\ content' = <<"header">>
            /\ pc' = "start"
            /\ ret' = ret
       ELSE IF opts.Format \in Formats
       THEN /\ content' = <<"header", opts.Format>>
            /\ pc' = "formatted"
            /\ ret' = ret
       ELSE /\ content' = <<"header">>
            /\ ret' = unsupportedFormat(content', opts.Format)
            /\ pc' = "returned"
    /\ UNCHANGED <<now, opts, data, parsed, startDate, endDate, quarters,
                   groupedItems, rows, milestones,
                   themes, epicMap, ganttRows, diagram>>

\* Generate after the format switch: addFooter if asked, then
\* return content.String(), nil
Return ==
    /\ pc \in {"done", "formatted"}
    /\ content' = IF opts.IncludeMetadata THEN Append(content, "footer")
                  ELSE content
    /\ ret' = [out |-> content', err |-> ""]
    /\ pc' = "returned"
    /\ UNCHANGED <<now, opts, data, parsed, startDate, endDate, quarters,
                   groupedItems, rows, milestones,
                   themes, epicMap, ganttRows, diagram>>

FormatNames == Formats \cup {"", "Roadmap", "pdf"}

ViewNames ==
    {"timeline", "strategic", "release", "epicgantt", "", "Timeline",
     "calendar"}

DataNone == [JiraIssues |-> <<>>, GitHubIssues |-> <<>>, GitHubPRs |-> <<>>]

InitGenerate ==
    \E f \in FormatNames, v \in ViewNames, meta \in BOOLEAN,
       d \in {DataOne, DataNone} :
        Called(NowFixed,
               [OptsBase EXCEPT !.Format = f, !.RoadmapView = v,
                                !.IncludeMetadata = meta],
               d)

NextGenerate ==
    \/ Generate
    \/ ParseTimeframe
    \/ DefaultRange
    \/ GenerateQuarters
    \/ TimelineView
    \/ StrategicView
    \/ ReleaseView
    \/ EpicGanttView
    \/ Return

SpecGenerate == InitGenerate /\ [][NextGenerate]_vars

UnknownView ==
    /\ opts.Format = "roadmap"
    /\ opts.RoadmapView \notin {"timeline", "strategic", "release", "epicgantt"}

Footer == IF opts.IncludeMetadata THEN <<"footer">> ELSE <<>>

\* C19 as claimed: a roadmap request whose view name is none of timeline,
\* strategic, release, epicgantt fails: Generate returns an error and no
\* rendered output.
C19_UnknownViewFails ==
    (pc = "returned" /\ UnknownView) => (ret.err # "" /\ ret.out = <<>>)

\* C19 as amended: a roadmap request whose view name is none of timeline,
\* strategic, release, epicgantt does not fail: Generate renders it as the
\* timeline view (every issue in a row of the timeline) and returns that
\* output and no error.
C19_UnknownViewRendersTimeline ==
    (pc = "returned" /\ UnknownView) =>
        /\ ret.err = ""
        /\ ret.out = <<"header", "roadmap", "period", "timeline", "legend">>
                        \o Footer
        /\ groupedItems = groupRoadmapItems(data, opts.RoadmapGrouping)
        /\ DOMAIN rows = DOMAIN groupedItems
        /\ Cardinality(Places)
              = Len(data.JiraIssues) + Len(data.GitHubIssues)
        /\ milestones = EmptyMap

C19_Witness ==
    /\ pc = "returned"
    /\ opts.Format = "roadmap"
    /\ opts.RoadmapView = "calendar"
    /\ ret.err = ""
    /\ Len(ret.out) = 5
    /\ ret.out[4] = "timeline"
    /\ Cardinality(Places) = 2

\* C20: with an unrecognized format name Generate returns an error and the
\* empty string, nothing of what it had written; with a recognized format
\* it returns the complete output (header, the sections of the format, the
\* footer if asked for) and no error.
C20_FormatAtomic ==
    pc = "returned" =>
        IF opts.Format \in Formats
        THEN /\ ret.err = ""
             /\ ret.out = content
             /\ Head(ret.out) = "header"
             /\ opts.IncludeMetadata => ret.out[Len(ret.out)] = "footer"
             /\ \E i \in 1..Len(ret.out) : ret.out[i] = opts.Format
             /\ opts.Format = "roadmap" =>
                   \E i \in 1..Len(ret.out) : ret.out[i] = "legend"
        ELSE /\ ret.err # ""
             /\ ret.out = <<>>

C20_Witness ==
    /\ pc = "returned"
    /\ opts.Format = "pdf"
    /\ content = <<"header">>
    /\ ret.out = <<>>
    /\ ret.err = "unsupported format: pdf"

----------------------------------------------------------------------------
(* Release view: properties.                                               *)

\* the priority order Blocked > At Risk > In Progress > Planned > Completed
StatusRank(st) ==
    CASE st = "Blocked" -> 5
      [] st = "At Risk" -> 4
      [] st = "In Progress" -> 3
      [] st = "Planned" -> 2
      [] st = "Completed" -> 1

\* st is the highest-priority status among the canonical statuses S
IsAggregateOf(st, S) ==
    /\ st \in S
    /\ \A other \in S : StatusRank(other) <= StatusRank(st)

\* C21: the status of each milestone is the highest-priority status among
\* its items (stated for milestones whose items all carry canonical
\* statuses), so a milestone whose items are all Completed is Completed.
C21_MilestoneAggregate ==
    (pc = "done" /\ opts.RoadmapView = "release") =>
        \A m \in DOMAIN milestones :
            LET sts == ItemStatuses(m)
                S == {sts[k] : k \in 1..Len(sts)}
            IN  S \subseteq CanonicalStatuses =>
                    IsAggregateOf(milestones[m].Status, S)

\* the issues that name a milestone, in input order: tickets, then host
\* issues
Assigned(name) ==
    SelectSeq([i \in 1..Len(data.JiraIssues) |->
                  [type |-> "jira", idx |-> i, issue |-> data.JiraIssues[i]]]
              \o [i \in 1..Len(data.GitHubIssues) |->
                  [type |-> "github-issue", idx |-> i,
                   issue |-> data.GitHubIssues[i]]],
              LAMBDA a : a.issue.Milestone = name)

MilestoneNames ==
    {data.JiraIssues[i].Milestone : i \in 1..Len(data.JiraIssues)}
        \cup {data.GitHubIssues[i].Milestone : i \in 1..Len(data.GitHubIssues)}

\* the end date of an assigned issue, inferred as the normaliser infers it
AssignedEndDate(a) ==
    IF a.issue.PlannedEndDate # NilTime THEN a.issue.PlannedEndDate
    ELSE IF a.type = "jira"
         THEN (IF a.issue.Status \in {"Done", "Closed", "Resolved"}
               THEN a.issue.UpdatedDate
               ELSE Plus14(ItemStartDate(a.issue)))
         ELSE (IF a.issue.State = "closed" THEN a.issue.UpdatedDate
               ELSE Plus14(ItemStartDate(a.issue)))

\* C29: every ticket and host issue with a non-empty milestone name is in
\* the item list of the milestone of that name, in input order, also when
\* it has no planned end date; the target date of the milestone is the end
\* date of the first such issue.
C29_MilestoneHoldsAllAssigned ==
    (pc = "done" /\ opts.RoadmapView = "release") =>
        \A name \in MilestoneNames \ {""} :
            /\ name \in DOMAIN milestones
            /\ Len(milestones[name].Items) = Len(Assigned(name))
            /\ \A k \in 1..Len(Assigned(name)) :
                  /\ milestones[name].Items[k].Type = Assigned(name)[k].type
                  /\ milestones[name].Items[k].idx = Assigned(name)[k].idx
            /\ milestones[name].TargetDate
                  = AssignedEndDate(Assigned(name)[1])

----------------------------------------------------------------------------
(* Strategic view: requests and properties.                                *)

\* planned ranges of initiative members: Q2..Q3 2025 and Q3..Q4 2025
MemberRanges ==
    {<<T(2025, 4, 10), T(2025, 8, 20)>>, <<T(2025, 8, 1), T(2025, 11, 1)>>}

JiraStrategicPool ==
    {[JiraBase EXCEPT !.Theme = "Platform", !.Initiative = ini,
                      !.PlannedStartDate = p[1], !.PlannedEndDate = p[2],
                      !.Status = st] :
        ini \in {"Login", "Billing"}, p \in MemberRanges,
        st \in {"In Progress", "Done"}}
    \cup {JiraBase}

GitHubStrategicPool ==
    {GitHubBase,
     [GitHubBase EXCEPT !.Theme = "Platform", !.Initiative = "Login",
                        !.PlannedStartDate = T(2025, 8, 1),
                        !.PlannedEndDate = T(2025, 11, 1)]}

InitStrategic ==
    \E js \in SeqsUpTo(JiraStrategicPool, MaxJira),
       gs \in SeqsUpTo(GitHubStrategicPool, MaxGitHub) :
        Entered(NowFixed, [OptsBase EXCEPT !.RoadmapView = "strategic"],
                [JiraIssues |-> js, GitHubIssues |-> gs,
                 GitHubPRs |-> <<PRBase>>])

NextStrategic ==
    \/ ParseTimeframe
    \/ DefaultRange
    \/ GenerateQuarters
    \/ StrategicView

SpecStrategic == InitStrategic /\ [][NextStrategic]_vars

\* the member items of initiative ini of theme th, as a set
Members(th, ini) ==
    {JiraItem(data.JiraIssues[i], i) :
        i \in {j \in 1..Len(data.JiraIssues) :
                  /\ data.JiraIssues[j].Theme = th
                  /\ data.JiraIssues[j].Initiative = ini}}
    \cup {GitHubItem(data.GitHubIssues[i], i) :
        i \in {j \in 1..Len(data.GitHubIssues) :
                  /\ data.GitHubIssues[j].Theme = th
                  /\ data.GitHubIssues[j].Initiative = ini}}

SetMin(S) == CHOOSE x \in S : \A y \in S : x <= y

SetMax(S) == CHOOSE x \in S : \A y \in S : y <= x

\* C22: in the strategic view each initiative's startQuarter and
\* endQuarter are the axis indices of the earliest and the latest quarter
\* among its member items.
C22_InitiativeSpansMembers ==
    (pc = "done" /\ opts.RoadmapView = "strategic") =>
        \A th \in DOMAIN themes : \A ini \in DOMAIN themes[th] :
            LET places == {getItemQuarters(item, quarters) :
                              item \in Members(th, ini)}
            IN  /\ themes[th][ini].StartQuarter
                       = SetMin({pl.startQuarter : pl \in places})
                /\ themes[th][ini].EndQuarter
                       = SetMax({pl.endQuarter : pl \in places})

\* C28: in the strategic view each initiative's status is the
\* highest-priority status among its member items, whatever the order of
\* the members (stated for members with canonical statuses).
C28_InitiativeAggregate ==
    (pc = "done" /\ opts.RoadmapView = "strategic") =>
        \A th \in DOMAIN themes : \A ini \in DOMAIN themes[th] :
            LET S == {item.Status : item \in Members(th, ini)}
            IN  S \subseteq CanonicalStatuses =>
                    IsAggregateOf(themes[th][ini].Status, S)

----------------------------------------------------------------------------
(* Epic-Gantt view: requests and properties.                               *)

EpicTicket(key, name) ==
    [JiraBase EXCEPT !.Key = key, !.IssueType = "Epic", !.Summary = name]

\* two epics, a child of the first, a ticket whose epic link names no
\* ticket of the input, and a ticket without epic link
JiraEpicPool ==
    {EpicTicket("PROJ-1", "Accounts"), EpicTicket("PROJ-12", "Billing"),
     [JiraBase EXCEPT !.EpicLink = "PROJ-1"],
     [JiraBase EXCEPT !.EpicLink = "PROJ-99"],
     JiraBase}

GitHubEpicPool ==
    {GitHubBase, [GitHubBase EXCEPT !.Title = "Fix PROJ-12 totals"]}

InitEpicGantt ==
    \E js \in SeqsUpTo(JiraEpicPool, MaxJira + 1),
       gs \in SeqsUpTo(GitHubEpicPool, MaxGitHub) :
        Entered(NowFixed, [OptsBase EXCEPT !.RoadmapView = "epicgantt"],
                [JiraIssues |-> js, GitHubIssues |-> gs,
                 GitHubPRs |-> <<PRBase>>])

NextEpicGantt ==
    \/ ParseTimeframe
    \/ DefaultRange
    \/ GenerateQuarters
    \/ EpicGanttView

SpecEpicGantt == InitEpicGantt /\ [][NextEpicGantt]_vars

GanttDone == pc = "done" /\ opts.RoadmapView = "epicgantt"

\* positions of the header rows of epic key, and of the item rows of one
\* input issue
HeaderRows(key) ==
    {k \in 1..Len(ganttRows) :
        ganttRows[k].kind = "header" /\ ganttRows[k].epic = key}

ItemRows(type, i) ==
    {k \in 1..Len(ganttRows) :
        /\ ganttRows[k].kind = "item"
        /\ ganttRows[k].item.Type = type
        /\ ganttRows[k].item.idx = i}

\* positions of the Epic tickets of the input
EpicTickets ==
    {i \in 1..Len(data.JiraIssues) : data.JiraIssues[i].IssueType = "Epic"}

\* the first position of the Epic ticket with the key of ticket i
FirstSeen(i) ==
    SetMin({j \in EpicTickets :
               data.JiraIssues[j].Key = data.JiraIssues[i].Key})

\* the item rows listed under epic key
RowsUnder(key) ==
    {k \in 1..Len(ganttRows) :
        ganttRows[k].kind = "item" /\ ganttRows[k].epic = key}

\* headers of epics i and j, where both exist, stand in first-seen order
HeadersOrdered(i, j) ==
    \A hi \in HeaderRows(data.JiraIssues[i].Key),
       hj \in HeaderRows(data.JiraIssues[j].Key) :
        FirstSeen(i) < FirstSeen(j) => hi < hj

\* C23 as stated: every Epic ticket produces a group header row, in
\* first-seen input order, also an epic with zero child items.
C23_EveryEpicHasHeader ==
    GanttDone =>
        /\ \A i \in EpicTickets :
              Cardinality(HeaderRows(data.JiraIssues[i].Key)) = 1
        /\ \A i \in EpicTickets, j \in EpicTickets : HeadersOrdered(i, j)

\* C23, amended: an Epic ticket produces one group header row exactly when
\* at least one item is grouped under its key, the headers stand in
\* first-seen input order, and an epic with zero items produces no header.
C23_EpicWithItemsHasHeader ==
    GanttDone =>
        /\ \A i \in EpicTickets :
              LET key == data.JiraIssues[i].Key
              IN  IF Len(EpicItems(epicMap, key)) > 0
                  THEN /\ Cardinality(HeaderRows(key)) = 1
                       /\ RowsUnder(key) # {}
                  ELSE HeaderRows(key) = {}
        /\ \A i \in EpicTickets, j \in EpicTickets : HeadersOrdered(i, j)

\* two epics with items, their headers in input order
C23_Witness ==
    /\ GanttDone
    /\ \E i \in EpicTickets, j \in EpicTickets :
          /\ i < j
          /\ data.JiraIssues[i].Key # data.JiraIssues[j].Key
          /\ HeaderRows(data.JiraIssues[i].Key) # {}
          /\ HeaderRows(data.JiraIssues[j].Key) # {}

\* C24: with no ticket issues and no host issues the epic-Gantt table has
\* exactly one group header row, the "No Epic" header, and no item rows.
C24_EmptyInputOneHeader ==
    (GanttDone /\ data.JiraIssues = <<>> /\ data.GitHubIssues = <<>>) =>
        /\ Len(ganttRows) = 1
        /\ ganttRows[1].kind = "header"
        /\ ganttRows[1].epic = "No Epic"

C24_Witness ==
    /\ GanttDone
    /\ data.JiraIssues = <<>> /\ data.GitHubIssues = <<>>
    /\ HeaderRows("No Epic") = {1}

\* C27: every non-epic ticket issue and every host issue is rendered as
\* exactly one item row, also a ticket whose epic link names no Epic ticket
\* of the input.
C27_EveryIssueHasRow ==
    GanttDone =>
        /\ \A i \in (1..Len(data.JiraIssues)) \ EpicTickets :
              Cardinality(ItemRows("jira", i)) = 1
        /\ \A i \in 1..Len(data.GitHubIssues) :
              Cardinality(ItemRows("github-issue", i)) = 1

\* the epic key a map of groups holds host issue i under
HostEpic(m, i) ==
    {key \in DOMAIN m :
        \E k \in 1..Len(m[key]) :
            m[key][k].Type = "github-issue" /\ m[key][k].idx = i}

\* C30: the epic a host issue is put under is a function of the input:
\* every render of the same input puts it under the same epic, also when
\* its title contains the keys of two epics, and a title containing no
\* epic key goes under "No Epic".
C30_HostEpicDetermined ==
    GanttDone =>
        \A i \in 1..Len(data.GitHubIssues) :
            /\ \A m \in EpicMaps(data) : HostEpic(m, i) = HostEpic(epicMap, i)
            /\ (\A e \in EpicTickets :
                   ~StrContains(data.GitHubIssues[i].Title,
                                data.JiraIssues[e].Key))
                   => HostEpic(epicMap, i) = {"No Epic"}

----------------------------------------------------------------------------
(* Dependencies: requests and properties.                                  *)

\* tickets without, with one and with two dependencies; "PROJ-404" names
\* no issue of any request
JiraDepsPool ==
    {JiraBase,
     [JiraBase EXCEPT !.Dependencies = <<"PROJ-8">>],
     [JiraBase EXCEPT !.Key = "PROJ-8",
                      !.Dependencies = <<"PROJ-7", "PROJ-404">>]}

GitHubDepsPool ==
    {GitHubBase, [GitHubBase EXCEPT !.Dependencies = <<"PROJ-7">>]}

InitViews ==
    \E view \in {"timeline", "strategic", "release", "epicgantt"},
       flag \in BOOLEAN,
       js \in SeqsUpTo(JiraDepsPool, MaxJira),
       gs \in SeqsUpTo(GitHubDepsPool, MaxGitHub) :
        Entered(NowFixed,
                [OptsBase EXCEPT !.RoadmapView = view,
                                 !.IncludeDependencies = flag],
                [JiraIssues |-> js, GitHubIssues |-> gs,
                 GitHubPRs |-> <<PRBase>>])

NextViews ==
    \/ ParseTimeframe
    \/ DefaultRange
    \/ GenerateQuarters
    \/ TimelineView
    \/ StrategicView
    \/ ReleaseView
    \/ EpicGanttView

SpecViews == InitViews /\ [][NextViews]_vars

\* the extractor has run: a view that calls it is rendered with the flag
\* set
Extracted ==
    /\ pc = "done"
    /\ opts.IncludeDependencies
    /\ opts.RoadmapView \in {"timeline", "epicgantt"}

\* the number of dependency entries of the tickets before ticket i
RECURSIVE DepsBefore(_)
DepsBefore(i) ==
    IF i <= 1 THEN 0
    ELSE DepsBefore(i - 1) + Len(data.JiraIssues[i - 1].Dependencies)

WithDeps(issues) == {i \in 1..Len(issues) : Len(issues[i].Dependencies) > 0}

\* C25: the extractor emits one edge (issue key, reference) for every
\* entry of every ticket's dependency list, whether or not the reference
\* names an item, one node for each ticket and each host issue with at
\* least one dependency and none for the others, and no edge from a host
\* issue.
C25_DependencyEdgesAndNodes ==
    Extracted =>
        /\ Len(diagram.edges) = DepsBefore(Len(data.JiraIssues) + 1)
        /\ \A i \in 1..Len(data.JiraIssues) :
              \A k \in 1..Len(data.JiraIssues[i].Dependencies) :
                  diagram.edges[DepsBefore(i) + k]
                      = <<data.JiraIssues[i].Key,
                          data.JiraIssues[i].Dependencies[k]>>
        /\ Len(diagram.nodes)
              = Cardinality(WithDeps(data.JiraIssues))
                    + Cardinality(WithDeps(data.GitHubIssues))
        /\ \A i \in WithDeps(data.JiraIssues) :
              \E n \in 1..Cardinality(WithDeps(data.JiraIssues)) :
                  diagram.nodes[n] = data.JiraIssues[i].Key
        /\ \A i \in WithDeps(data.GitHubIssues) :
              \E n \in 1..Len(diagram.nodes) :
                  /\ n > Cardinality(WithDeps(data.JiraIssues))
                  /\ diagram.nodes[n] = HostNodeID(i)
        /\ \A e \in 1..Len(diagram.edges) :
              \A i \in 1..Len(data.GitHubIssues) :
                  diagram.edges[e][1] # HostNodeID(i)

\* a ticket without dependencies, a ticket with two (one of them naming
\* no item) and a host issue with one
C25_Witness ==
    /\ Extracted
    /\ \E i \in 1..Len(data.JiraIssues) :
          data.JiraIssues[i].Dependencies = <<>>
    /\ \E i \in 1..Len(data.JiraIssues) :
          Len(data.JiraIssues[i].Dependencies) = 2
    /\ WithDeps(data.GitHubIssues) # {}
    /\ Len(diagram.edges) = 2
    /\ Len(diagram.nodes) = 2

\* C26: the rendered roadmap contains the dependency diagram block exactly
\* when the include-dependencies flag is set, whichever of the four views
\* is selected.
C26_DiagramFollowsFlag ==
    pc = "done" =>
        (opts.IncludeDependencies
            <=> \E k \in 1..Len(content) : content[k] = "dependencies")

====
